---- MODULE Spec2Model ----
(***************************************************************************)
(* tosijs-schema: the validator of src/src/schema.ts (validate / walk)    *)
(* over JSON-Schema-like trees, with its stride sampling of large arrays  *)
(* and dictionaries.                                                       *)
(*                                                                         *)
(* JavaScript values are tagged records: k is the kind, the other field   *)
(* the payload.  A number carries h, twice its value, so that 5.5 (h = 11)*)
(* is a number that is not an integer.  An object carries its keys in     *)
(* for-in order and the map `at` from key to value.  A schema node is a   *)
(* record without the field k; a key that the JavaScript object does not  *)
(* have is a field the record does not have.                              *)
(***************************************************************************)
EXTENDS Integers, Sequences, FiniteSets, TLC

VARIABLES val, schema, opts, pc, ret, thrown, reports, visited,
          schemaA, schemaB, delta,
          mode, chain, link, mpc, cur, result, invoked, settled, timer, elapsed, late,
          failure, delivered

vvars == <<val, schema, opts, ret, thrown, reports, visited>>
dvars == <<schemaA, schemaB, delta>>
mvars == <<mode, chain, link, mpc, cur, result, invoked, settled, timer, elapsed, late,
           failure, delivered>>
vars == <<vvars, pc, dvars, mvars>>

(* ------------------------------ bounds -------------------------------- *)

\* Collection sizes are taken around the multiples 0..MaxMult of STRIDE,
\* Slack below and above each.
MaxMult == 3
Slack == 1
Edge == 3

\* The values of maxProperties a schema is compared under.
MaxProps == 3

\* The longest chain of guarded functions.
MaxChain == 2

(* -------------------------- program constants ------------------------- *)

STRIDE == 97

(* --------------------------- JavaScript values ------------------------ *)

Undefined == [k |-> "undefined"]
Null == [k |-> "null"]
Num(n) == [k |-> "number", h |-> 2 * n]
Half(n) == [k |-> "number", h |-> 2 * n + 1]
Str(x) == [k |-> "string", s |-> x]
Bool(b) == [k |-> "boolean", b |-> b]
Arr(xs) == [k |-> "array", elems |-> xs]
Obj(ks, f) == [k |-> "object", keys |-> ks, at |-> f]
EmptyObj == Obj(<<>>, <<>>)
Obj1(k1, v1) == Obj(<<k1>>, (k1 :> v1))
Obj2(k1, v1, k2, v2) == Obj(<<k1, k2>>, (k1 :> v1) @@ (k2 :> v2))
Obj3(k1, v1, k2, v2, k3, v3) == Obj(<<k1, k2, k3>>, (k1 :> v1) @@ (k2 :> v2) @@ (k3 :> v3))

Range(xs) == {xs[i] : i \in 1..Len(xs)}

IsValue(x) == "k" \in DOMAIN x
IsSchemaNode(x) == ~IsValue(x)
IsArray(x) == IsValue(x) /\ x.k = "array"
TypeOf(v) == IF v.k \in {"null", "array", "object"} THEN "object" ELSE v.k
IsNullish(v) == v.k \in {"null", "undefined"}
IsInteger(v) == v.k = "number" /\ v.h % 2 = 0
In(key, o) == key \in Range(o.keys)
Truthy(x) == IF IsSchemaNode(x) THEN TRUE
             ELSE CASE x.k = "boolean" -> x.b
                    [] x.k = "number" -> x.h # 0
                    [] x.k = "string" -> x.s # ""
                    [] x.k \in {"null", "undefined"} -> FALSE
                    [] OTHER -> TRUE
Has(s, f) == f \in DOMAIN s

\* Array.prototype.includes: SameValueZero, so only primitives are found by value.
Includes(arr, v) ==
  \E i \in 1..Len(arr.elems) :
    /\ arr.elems[i].k = v.k
    /\ v.k \in {"number", "string", "boolean", "null", "undefined"}
    /\ arr.elems[i] = v

Digit(d) == CASE d = 0 -> "0" [] d = 1 -> "1" [] d = 2 -> "2" [] d = 3 -> "3"
              [] d = 4 -> "4" [] d = 5 -> "5" [] d = 6 -> "6" [] d = 7 -> "7"
              [] d = 8 -> "8" [] d = 9 -> "9"

\* String(i) for an array index i >= 0.
RECURSIVE StringOf(_)
StringOf(i) == IF i < 10 THEN Digit(i) ELSE StringOf(i \div 10) \o Digit(i % 10)

\* path.join('.')
RECURSIVE Join(_)
Join(path) == IF Len(path) = 0 THEN ""
              ELSE IF Len(path) = 1 THEN path[1]
              ELSE path[1] \o "." \o Join(Tail(path))

(* ------------------------------ validate ------------------------------ *)

\* The strings the format registry and the patterns of the model decide.
EmailStrings == {"a@b.c"}
PatternA == "^a+$"
PatternDash == "^a\\-b$"
PatternOpen == "("

\* FMT[name]: only the names of the registry are keys.
FMTNames == {"email", "uuid", "uri", "ipv4", "date-time", "emoji"}
FMT(name, x) == IF name = "email" THEN x \in EmailStrings ELSE FALSE

\* new RegExp(pattern, flags): whether the pattern compiles.  An unbalanced
\* parenthesis never does; the identity escape \\- does without the flag u only.
RegExpCompiles(pattern, flags) ==
  IF pattern = PatternOpen THEN FALSE
  ELSE IF pattern = PatternDash THEN flags = ""
  ELSE TRUE

\* new RegExp(pattern, flags).test(x), for the patterns of the model.
RegExpTest(pattern, x) ==
  IF pattern = PatternA THEN x \in {"a", "aa"}
  ELSE IF pattern = PatternDash THEN x = "a-b"
  ELSE FALSE

\* A callback that throws when it is called.
Throws(f) == IsValue(f) /\ f.k = "function" /\ Has(f, "throws") /\ f.throws

\* const onError = typeof opts === 'function' ? opts : opts?.onError
OnErrorOf(o) == IF TypeOf(o) = "function" THEN o
                ELSE IF o.k = "object" /\ Has(o, "onError") THEN o.onError
                ELSE Undefined

\* An option parsing in which a callback turns the full scan on.
FullScanOrCallback(o) ==
  IF TypeOf(o) = "function" THEN Bool(TRUE)
  ELSE IF TypeOf(o) = "object"
  THEN (IF o.k = "object" /\ Has(o, "onError") /\ Truthy(o.onError) THEN Bool(TRUE)
        ELSE IF o.k = "object" /\ Has(o, "fullScan") THEN o.fullScan ELSE Undefined)
  ELSE Bool(FALSE)

\* const fullScan = typeof opts === 'object' ? opts?.fullScan : false
FullScanOf(o) == IF TypeOf(o) = "object"
                 THEN (IF o.k = "object" /\ Has(o, "fullScan") THEN o.fullScan ELSE Undefined)
                 ELSE Bool(FALSE)

\* path.join('.') || 'root'
PathString(path) == IF Join(path) = "" THEN "root" ELSE Join(path)

\* The outcome of a walk or of a run of loop iterations: what it returns, the
\* calls of onError it made, the calls of walk it made in order (each with the
\* path stack at the call and what the call returned), the loop's own
\* variable after the run (st: the counter i of the dictionary loop, 1 after
\* the break of the list loop), and the exception that ended it instead of a
\* return (exc, "" when it returned; ok is then FALSE, so that nothing runs
\* after it).
Pass(vs) == [ok |-> TRUE, errs |-> <<>>, visits |-> vs, st |-> 0, exc |-> ""]

\* An exception thrown by the code of walk itself.
Throw(name) == [ok |-> FALSE, errs |-> <<>>, visits |-> <<>>, st |-> 0, exc |-> name]

\* err(msg)
Err(msg, path, onError) ==
  [ok |-> FALSE,
   errs |-> IF Truthy(onError) THEN <<[path |-> PathString(path), msg |-> msg]>> ELSE <<>>,
   visits |-> <<>>,
   st |-> 0,
   exc |-> IF Truthy(onError) /\ Throws(onError) THEN "CallbackError" ELSE ""]

\* What ran after r runs although r failed.
AndThenRegardless(r, rest) ==
  [ok |-> r.ok /\ rest.ok, errs |-> r.errs \o rest.errs,
   visits |-> r.visits \o rest.visits, st |-> rest.st,
   exc |-> IF r.exc # "" THEN r.exc ELSE rest.exc]

\* if (!ok) return false: r, and when it succeeded what ran after it.
AndThen(r, rest) ==
  IF ~r.ok THEN r
  ELSE [ok |-> rest.ok, errs |-> rest.errs, visits |-> r.visits \o rest.visits, st |-> rest.st,
        exc |-> rest.exc]

\* const t = Array.isArray(s.type) ? s.type[0] : s.type
BaseType(s) == IF ~Has(s, "type") THEN Undefined
               ELSE IF IsArray(s.type) THEN s.type.elems[1]
               ELSE s.type

\* The type screening; "" when the value passes it.
TypeError(v, t) ==
  IF t = Str("integer") THEN (IF TypeOf(v) # "number" \/ ~IsInteger(v) THEN "Expected integer" ELSE "")
  ELSE IF t = Str("array") THEN (IF ~IsArray(v) THEN "Expected array" ELSE "")
  ELSE IF t = Str("object") THEN (IF TypeOf(v) # "object" \/ IsArray(v) THEN "Expected object" ELSE "")
  ELSE IF Truthy(t) /\ TypeOf(v) # t.s THEN "Expected " \o t.s
  ELSE ""

\* A screening that tests the type before the enum.
ScreeningTypeFirst(v, s, t) ==
  IF TypeError(v, t) # "" THEN TypeError(v, t)
  ELSE IF Has(s, "enum") /\ Truthy(s.enum) /\ ~Includes(s.enum, v) THEN "Enum mismatch"
  ELSE ""

\* if (s.enum && !s.enum.includes(v)) return err('Enum mismatch'), then the
\* type screening; "" when the value passes both.
Screening(v, s, t) ==
  IF Has(s, "enum") /\ Truthy(s.enum) /\ ~Includes(s.enum, v) THEN "Enum mismatch"
  ELSE TypeError(v, t)

\* The numeric constraints; "" when the value passes them.
NumberError(v, s) ==
  IF TypeOf(v) # "number" THEN ""
  ELSE IF Has(s, "minimum") /\ v.h < s.minimum.h THEN "Value < min"
  ELSE IF Has(s, "maximum") /\ v.h > s.maximum.h THEN "Value > max"
  ELSE IF Has(s, "multipleOf") /\ (s.multipleOf.h = 0 \/ v.h % s.multipleOf.h # 0) THEN "Value not step"
  ELSE ""

\* The string constraints; "" when the value passes them.
StringError(v, s) ==
  IF TypeOf(v) # "string" THEN ""
  ELSE IF Has(s, "minLength") /\ 2 * Len(v.s) < s.minLength.h THEN "Len < min"
  ELSE IF Has(s, "maxLength") /\ 2 * Len(v.s) > s.maxLength.h THEN "Len > max"
  ELSE IF Has(s, "pattern") /\ Truthy(s.pattern) /\ ~RegExpTest(s.pattern.s, v.s) THEN "Pattern mismatch"
  ELSE IF Has(s, "format") /\ Truthy(s.format) /\ s.format.s \in FMTNames /\ ~FMT(s.format.s, v.s)
       THEN "Format invalid"
  ELSE ""

\* new RegExp(s.pattern, s.format === 'emoji' ? 'u' : ''): the flags, and
\* whether the string checks reach the constructor with a pattern that does
\* not compile.
FlagsOf(s) == IF Has(s, "format") /\ s.format = Str("emoji") THEN "u" ELSE ""
PatternThrows(v, s) ==
  /\ TypeOf(v) = "string"
  /\ ~(Has(s, "minLength") /\ 2 * Len(v.s) < s.minLength.h)
  /\ ~(Has(s, "maxLength") /\ 2 * Len(v.s) > s.maxLength.h)
  /\ Has(s, "pattern") /\ Truthy(s.pattern)
  /\ ~RegExpCompiles(s.pattern.s, FlagsOf(s))

\* v[i] of an array, undefined past its end.
Elem(v, i) == IF i < Len(v.elems) THEN v.elems[i + 1] ELSE Undefined

\* A loop that never samples.
StepOfEveryElement(fullScan, len) == 1

\* A step rounded up instead of down.
StepOfRoundedUp(fullScan, len) ==
  IF Truthy(fullScan) \/ len <= STRIDE THEN 1 ELSE (len + STRIDE - 1) \div STRIDE

\* const step = fullScan || len <= STRIDE ? 1 : Math.floor(len / STRIDE)
StepOf(fullScan, len) == IF Truthy(fullScan) \/ len <= STRIDE THEN 1 ELSE len \div STRIDE

\* A loop whose forced last index is one past the end.
IdxOfPastEnd(i, step, len) == IF step > 1 /\ i > len - 1 - step THEN len ELSE i

\* A loop that does not force the last index.
IdxOfCursor(i, step, len) == i

\* const idx = step > 1 && i > len - 1 - step ? len - 1 : i
IdxOf(i, step, len) == IF step > 1 /\ i > len - 1 - step THEN len - 1 ELSE i

\* A stride that starts with the first key: the keys 1, 98, 195, ... are kept.
SkipKeyAfterFirst(fullScan, i) == ~Truthy(fullScan) /\ i % STRIDE # 0

\* if (!fullScan) { i++; if (i % STRIDE !== 0) continue }
SkipKey(fullScan, i) == ~Truthy(fullScan) /\ (i + 1) % STRIDE # 0

RECURSIVE Validate(_, _, _)
RECURSIVE Walk(_, _, _, _, _)
RECURSIVE WalkProperties(_, _, _, _, _, _, _)
RECURSIVE WalkAdditional(_, _, _, _, _, _, _, _)
RECURSIVE WalkTuple(_, _, _, _, _, _, _)
RECURSIVE WalkItems(_, _, _, _, _, _, _, _)

\* A union that wants every member to match.
AnyOfAllMatch(v, s) ==
  \A n \in 1..Len(s.anyOf.elems) : Validate(v, s.anyOf.elems[n], Undefined).ok

\* The first member whose validate(v, sub) threw before any member accepted, 0
\* when there is none.
AnyOfThrower(v, s) ==
  LET throwers == {n \in 1..Len(s.anyOf.elems) :
                     /\ Validate(v, s.anyOf.elems[n], Undefined).exc # ""
                     /\ \A m \in 1..(n - 1) : ~Validate(v, s.anyOf.elems[m], Undefined).ok}
  IN IF throwers = {} THEN 0 ELSE CHOOSE n \in throwers : \A m \in throwers : n <= m

\* A union that tries its members with fullScan.
AnyOfMatchesFullScan(v, s) ==
  \E n \in 1..Len(s.anyOf.elems) :
    Validate(v, s.anyOf.elems[n], [k |-> "object", fullScan |-> Bool(TRUE)]).ok

\* for (const sub of s.anyOf) if (validate(v, sub)) return true
AnyOfMatches(v, s) ==
  \E n \in 1..Len(s.anyOf.elems) : Validate(v, s.anyOf.elems[n], Undefined).ok

\* The loops run their iterations lo..hi in order and stop at the first walk
\* that fails; a run of several iterations is the run of its first half and,
\* when that neither failed nor left the loop, the run of the second half
\* from the loop variable the first half ended with.

\* for (const k in s.properties) if (k in v) { push; walk; pop; if (!ok) return false }
\* Iteration n is the n-th key of s.properties.
WalkProperties(v, s, lo, hi, path, onError, fullScan) ==
  IF lo > hi THEN Pass(<<>>)
  ELSE IF lo = hi
  THEN LET key == s.properties.keys[lo] IN
       IF ~In(key, v) THEN Pass(<<>>)
       ELSE Walk(v.at[key], s.properties.at[key], Append(path, key), onError, fullScan)
  ELSE LET mid == (lo + hi) \div 2
           left == WalkProperties(v, s, lo, mid, path, onError, fullScan)
       IN AndThen(left, WalkProperties(v, s, mid + 1, hi, path, onError, fullScan))

\* for (const k in v) { if (s.properties && k in s.properties) continue;
\*   if (!fullScan) { i++; if (i % STRIDE !== 0) continue }; push; walk; pop }
\* Iteration n is the n-th key of v in for-in order; i is the counter before it.
WalkAdditional(v, s, lo, hi, i, path, onError, fullScan) ==
  IF lo > hi THEN [Pass(<<>>) EXCEPT !.st = i]
  ELSE IF lo = hi
  THEN LET key == v.keys[lo]
           i2 == IF ~Truthy(fullScan) THEN i + 1 ELSE i
       IN IF Has(s, "properties") /\ In(key, s.properties) THEN [Pass(<<>>) EXCEPT !.st = i]
          ELSE IF SkipKey(fullScan, i) THEN [Pass(<<>>) EXCEPT !.st = i2]
          ELSE [Walk(v.at[key], s.additionalProperties, Append(path, key), onError, fullScan)
                  EXCEPT !.st = i2]
  ELSE LET mid == (lo + hi) \div 2
           left == WalkAdditional(v, s, lo, mid, i, path, onError, fullScan)
       IN AndThen(left, WalkAdditional(v, s, mid + 1, hi, left.st, path, onError, fullScan))

\* for (let i = 0; i < s.items.length; i++) { push; if (!walk(v[i], s.items[i])) ...; pop }
\* Iteration i is position i of the tuple.
WalkTuple(v, s, lo, hi, path, onError, fullScan) ==
  IF lo > hi THEN Pass(<<>>)
  ELSE IF lo = hi
  THEN Walk(Elem(v, lo), s.items.elems[lo + 1], Append(path, StringOf(lo)), onError, fullScan)
  ELSE LET mid == (lo + hi) \div 2
           left == WalkTuple(v, s, lo, mid, path, onError, fullScan)
       IN AndThen(left, WalkTuple(v, s, mid + 1, hi, path, onError, fullScan))

\* for (let i = 0; i < len; i += step) { idx; push; walk; pop; if (idx === len - 1) break }
\* Iteration n has i = n * step; st = 1 once the loop was left by break.
WalkItems(v, s, lo, hi, step, path, onError, fullScan) ==
  IF lo > hi THEN Pass(<<>>)
  ELSE IF lo = hi
  THEN LET len == Len(v.elems)
           idx == IdxOf(lo * step, step, len)
       IN [Walk(Elem(v, idx), s.items, Append(path, StringOf(idx)), onError, fullScan)
             EXCEPT !.st = IF idx = len - 1 THEN 1 ELSE 0]
  ELSE LET mid == (lo + hi) \div 2
           left == WalkItems(v, s, lo, mid, step, path, onError, fullScan)
       IN IF left.st = 1 THEN left
          ELSE AndThen(left, WalkItems(v, s, mid + 1, hi, step, path, onError, fullScan))

\* A key count that enforces maxProperties as well.
TooFewOrTooManyProps(v, s) ==
  \/ Has(s, "minProperties") /\ 2 * Len(v.keys) < s.minProperties.h
  \/ Has(s, "maxProperties") /\ 2 * Len(v.keys) > s.maxProperties.h

\* if (s.minProperties !== undefined) { count the own keys; if (c < s.minProperties) ... }
TooFewProps(v, s) == Has(s, "minProperties") /\ 2 * Len(v.keys) < s.minProperties.h

\* An object body that rejects a key that properties does not declare when
\* additionalProperties is false.
WalkObjectClosed(v, s, path, onError, fullScan) ==
  LET missing == IF Has(s, "required")
                 THEN {n \in 1..Len(s.required.elems) : ~In(s.required.elems[n].s, v)}
                 ELSE {}
      first == CHOOSE n \in missing : \A m \in missing : n <= m
      extra == {key \in Range(v.keys) : ~(Has(s, "properties") /\ In(key, s.properties))}
  IN
  IF TooFewProps(v, s) THEN Err("Too few props", path, onError)
  ELSE IF missing # {} THEN Err("Missing " \o s.required.elems[first].s, path, onError)
  ELSE IF Has(s, "additionalProperties") /\ ~Truthy(s.additionalProperties) /\ extra # {}
  THEN Err("Unexpected key", path, onError)
  ELSE LET r == IF Has(s, "properties")
                THEN WalkProperties(v, s, 1, Len(s.properties.keys), path, onError, fullScan)
                ELSE Pass(<<>>)
       IN IF Has(s, "additionalProperties") /\ Truthy(s.additionalProperties)
          THEN AndThen(r, WalkAdditional(v, s, 1, Len(v.keys), 0, path, onError, fullScan))
          ELSE r

\* if (t === 'object') { minProperties; required; properties; additionalProperties }
WalkObject(v, s, path, onError, fullScan) ==
  LET missing == IF Has(s, "required")
                 THEN {n \in 1..Len(s.required.elems) : ~In(s.required.elems[n].s, v)}
                 ELSE {}
      first == CHOOSE n \in missing : \A m \in missing : n <= m
  IN
  IF TooFewProps(v, s) THEN Err("Too few props", path, onError)
  ELSE IF missing # {} THEN Err("Missing " \o s.required.elems[first].s, path, onError)
  ELSE LET r == IF Has(s, "properties")
                THEN WalkProperties(v, s, 1, Len(s.properties.keys), path, onError, fullScan)
                ELSE Pass(<<>>)
       IN IF Has(s, "additionalProperties") /\ Truthy(s.additionalProperties)
          THEN AndThen(r, WalkAdditional(v, s, 1, Len(v.keys), 0, path, onError, fullScan))
          ELSE r

\* A tuple of which only the first STRIDE positions are checked without fullScan.
WalkArraySamplingTuples(v, s, path, onError, fullScan) ==
  LET len == Len(v.elems) IN
  IF Has(s, "minItems") /\ 2 * len < s.minItems.h THEN Err("Array too short", path, onError)
  ELSE IF Has(s, "maxItems") /\ 2 * len > s.maxItems.h THEN Err("Array too long", path, onError)
  ELSE IF IsArray(s.items)
  THEN WalkTuple(v, s, 0,
                 (IF Truthy(fullScan) \/ Len(s.items.elems) <= STRIDE
                  THEN Len(s.items.elems) ELSE STRIDE) - 1,
                 path, onError, fullScan)
  ELSE LET step == StepOf(fullScan, len)
       IN WalkItems(v, s, 0, (len - 1) \div step, step, path, onError, fullScan)

\* if (t === 'array' && s.items) { minItems; maxItems; tuple or sampled list }
WalkArray(v, s, path, onError, fullScan) ==
  LET len == Len(v.elems) IN
  IF Has(s, "minItems") /\ 2 * len < s.minItems.h THEN Err("Array too short", path, onError)
  ELSE IF Has(s, "maxItems") /\ 2 * len > s.maxItems.h THEN Err("Array too long", path, onError)
  ELSE IF IsArray(s.items) THEN WalkTuple(v, s, 0, Len(s.items.elems) - 1, path, onError, fullScan)
  ELSE LET step == StepOf(fullScan, len)
       IN WalkItems(v, s, 0, (len - 1) \div step, step, path, onError, fullScan)

\* const walk = (v, s) => ...   (path is the stack at the call)
Walk(v, s, path, onError, fullScan) ==
  LET t == BaseType(s)
      body ==
        IF Has(s, "anyOf") /\ Truthy(s.anyOf)
        THEN (IF AnyOfThrower(v, s) # 0
              THEN Throw(Validate(v, s.anyOf.elems[AnyOfThrower(v, s)], Undefined).exc)
              ELSE IF AnyOfMatches(v, s) THEN Pass(<<>>)
              ELSE Err("Union mismatch", path, onError))
        ELSE IF IsNullish(v)
        THEN (IF Has(s, "type") /\ IsArray(s.type) /\ Includes(s.type, Str("null"))
              THEN Pass(<<>>)
              ELSE Err("Expected value", path, onError))
        ELSE IF Screening(v, s, t) # "" THEN Err(Screening(v, s, t), path, onError)
        ELSE IF NumberError(v, s) # "" THEN Err(NumberError(v, s), path, onError)
        ELSE IF PatternThrows(v, s) THEN Throw("SyntaxError")
        ELSE IF StringError(v, s) # "" THEN Err(StringError(v, s), path, onError)
        ELSE IF t = Str("object") THEN WalkObject(v, s, path, onError, fullScan)
        ELSE IF t = Str("array") /\ Has(s, "items") /\ Truthy(s.items)
        THEN WalkArray(v, s, path, onError, fullScan)
        ELSE Pass(<<>>)
  IN [body EXCEPT !.visits = <<[path |-> path, ok |-> body.ok]>> \o body.visits, !.st = 0]

\* export function validate(val, schema, opts)
Validate(v, s, o) == Walk(v, s, <<>>, OnErrorOf(o), FullScanOf(o))

(* --------------------------- schema builders -------------------------- *)

SString == [type |-> Str("string")]
SNumber == [type |-> Str("number")]
SInteger == [type |-> Str("integer")]
SBoolean == [type |-> Str("boolean")]

\* get optional(): type becomes [...type, 'null'] or [type, 'null']
Optional(s) ==
  [type |-> IF ~Has(s, "type") THEN Arr(<<Undefined, Str("null")>>)
            ELSE IF IsArray(s.type) THEN Arr(s.type.elems \o <<Str("null")>>)
            ELSE Arr(<<s.type, Str("null")>>)] @@ s

\* min(v): the key depends on the type
Min(s, n) ==
  IF Has(s, "type") /\ s.type = Str("string") THEN [minLength |-> Num(n)] @@ s
  ELSE IF Has(s, "type") /\ s.type = Str("array") THEN [minItems |-> Num(n)] @@ s
  ELSE IF Has(s, "type") /\ s.type = Str("object") THEN [minProperties |-> Num(n)] @@ s
  ELSE [minimum |-> Num(n)] @@ s

\* max(v): maxProperties is generated for documents only
Max(s, n) ==
  IF Has(s, "type") /\ s.type = Str("string") THEN [maxLength |-> Num(n)] @@ s
  ELSE IF Has(s, "type") /\ s.type = Str("array") THEN [maxItems |-> Num(n)] @@ s
  ELSE IF Has(s, "type") /\ s.type = Str("object") THEN [maxProperties |-> Num(n)] @@ s
  ELSE [maximum |-> Num(n)] @@ s

SUnion(schemas) == [anyOf |-> Arr(schemas)]
SEnum(vals) == [type |-> Str(TypeOf(vals[1])), enum |-> Arr(vals)]
SArray(items) == [type |-> Str("array"), items |-> items]
STuple(items) ==
  [type |-> Str("array"), items |-> Arr(items),
   minItems |-> Num(Len(items)), maxItems |-> Num(Len(items))]

\* A property is required unless its type is a list that includes 'null'.
IsRequired(s) == ~(Has(s, "type") /\ IsArray(s.type) /\ Includes(s.type, Str("null")))

SObject(props) ==
  LET req == SelectSeq(props.keys, LAMBDA key : IsRequired(props.at[key]))
  IN [type |-> Str("object"),
      properties |-> props,
      required |-> Arr([n \in 1..Len(req) |-> Str(req[n])]),
      additionalProperties |-> Bool(FALSE)]

SRecord(value) == [type |-> Str("object"), additionalProperties |-> value]

(* ------------------------------ the calls ----------------------------- *)

\* The sizes of the large collections, and the positions in a collection of
\* length len where one bad element is put: Edge at each end, one in the
\* middle, or none (-1).
Lens == {n \in {m * STRIDE + d : m \in 0..MaxMult, d \in (0 - Slack)..Slack} : n >= 0}
Positions(len) ==
  {-1} \cup {q \in 0..(len - 1) : q < Edge \/ q >= len - Edge \/ q = len \div 2}

Key(i) == "k_" \o StringOf(i)

\* len numbers, a string at index bad.
BigArr(len, bad) == Arr([i \in 1..len |-> IF i = bad + 1 THEN Str("bad") ELSE Num(1)])

\* len keys k_0.. in insertion order, numbers, a string under the key at position bad.
BigDict(len, bad) ==
  Obj([i \in 1..len |-> Key(i - 1)],
      [key \in {Key(i) : i \in 0..(len - 1)} |->
         IF bad >= 0 /\ key = Key(bad) THEN Str("bad") ELSE Num(1)])

\* The same with the declared key id first.
WithId(o) == Obj(<<"id">> \o o.keys, ("id" :> Str("x")) @@ o.at)

Fn == [k |-> "function"]
FnThrows == [k |-> "function", throws |-> TRUE]
FullScanOn == [k |-> "object", fullScan |-> Bool(TRUE)]
FullScanOff == [k |-> "object", fullScan |-> Bool(FALSE)]
OnErrorOnly == [k |-> "object", onError |-> Fn]
OnErrorFullScan == [k |-> "object", onError |-> Fn, fullScan |-> Bool(TRUE)]
OnErrorThrows == [k |-> "object", onError |-> FnThrows]
NoOptions == [k |-> "object"]

BigOpts == <<Undefined, Fn, FullScanOn, OnErrorFullScan, FnThrows>>
AllOpts == <<Undefined, Fn, FullScanOn, OnErrorFullScan, FullScanOff, OnErrorOnly, NoOptions, Null,
             FnThrows, OnErrorThrows>>

ListOfNumbers == SArray(SNumber)
ListInObject == SObject(Obj2("id", SNumber, "list", ListOfNumbers))
ListInUnion == SUnion(<<ListOfNumbers, SArray(SBoolean)>>)
Dictionary == SRecord(SNumber)
DictionaryWithId == [additionalProperties |-> SNumber] @@ SObject(Obj1("id", SString))
TupleOfNumbers(n) == STuple([i \in 1..n |-> SNumber])

\* The any schema: an object without keys.
SAny == <<>>

\* s.string.pattern(r), s.string.emoji
Pattern(s, r) == [pattern |-> Str(r)] @@ s
Emoji(s) == [pattern |-> Str("^\\p{Extended_Pictographic}+$"), format |-> Str("emoji")] @@ s

Cat == SObject(Obj2("type", SEnum(<<Str("cat")>>), "meow", SBoolean))
Dog == SObject(Obj2("type", SEnum(<<Str("dog")>>), "bark", SBoolean))

SmallSchemas ==
  << SAny, SString, SNumber, SInteger, SBoolean,
     Optional(SString), Optional(SNumber),
     Max(Min(SNumber, 1), 5),
     Min(SString, 1),
     SEnum(<<Str("admin"), Str("user")>>),
     SEnum(<<Num(200), Num(404)>>),
     SEnum(<<Str("admin"), Num(200)>>),
     SUnion(<<SString, SNumber>>),
     SUnion(<<Cat, Dog>>),
     SUnion(<<SInteger, SArray(SNumber)>>),
     SObject(Obj2("a", SNumber, "b", SNumber)),
     SObject(Obj2("id", SNumber, "email", SString)),
     SObject(Obj1("user", SObject(Obj1("name", SNumber)))),
     SObject(Obj2("id", SNumber, "metadata", SAny)),
     SObject(Obj2("id", Optional(SNumber), "pet", SUnion(<<SString, SNumber>>))),
     SObject(Obj1("", SNumber)),
     SObject(Obj1("list", SArray(SObject(Obj1("a", SNumber))))),
     [additionalProperties |-> SNumber] @@ SObject(Obj1("a", SNumber)),
     SRecord(SNumber),
     SRecord(SObject(Obj1("name", SNumber))),
     Min(SRecord(SNumber), 0), Min(SRecord(SNumber), 1), Min(SRecord(SNumber), 2),
     Min(SRecord(SNumber), 3),
     Max(SRecord(SNumber), 1),
     Max(Min(SRecord(SNumber), 1), 2),
     Max(SObject(Obj1("a", SNumber)), 0),
     SArray(SNumber), SArray(SAny), Min(SArray(SNumber), 2),
     SArray(SArray(SNumber)),
     STuple(<<SNumber, SNumber>>),
     STuple(<<SNumber, SString, SBoolean>>),
     STuple(<<SNumber, STuple(<<SString, SString>>)>>),
     Pattern(SString, PatternA), Pattern(SString, PatternDash),
     Pattern(Min(SString, 2), PatternOpen),
     Emoji(SString), Pattern(Emoji(SString), PatternDash),
     SUnion(<<SNumber, Pattern(Emoji(SString), PatternDash)>>),
     SObject(Obj2("id", SNumber, "email", Pattern(Emoji(SString), PatternDash))) >>

SmallValues ==
  << Null, Undefined, Num(0), Num(1), Num(5), Num(200), Half(5),
     Str(""), Str("a"), Str("a-b"), Str("admin"), Str("cat"), Bool(TRUE), Bool(FALSE),
     Arr(<<>>), Arr(<<Num(1)>>), Arr(<<Num(10), Num(20)>>), Arr(<<Str("10"), Num(20)>>),
     Arr(<<Num(10), Str("20")>>), Arr(<<Num(10), Num(20), Num(30)>>),
     Arr(<<Num(1), Str("Alice"), Bool(TRUE)>>), Arr(<<Num(1), Str("Alice"), Str("yes")>>),
     Arr(<<Num(1), Null>>), Arr(<<Undefined, Num(1)>>),
     Arr(<<Arr(<<Num(1)>>), Arr(<<Num(1), Str("x")>>)>>),
     Arr(<<Num(1), Arr(<<Str("a"), Str("b")>>)>>), Arr(<<Num(1), Arr(<<Str("a"), Num(2)>>)>>),
     EmptyObj,
     Obj1("a", Num(1)), Obj1("a", Str("bad")), Obj1("b", Num(1)),
     Obj2("a", Num(1), "b", Num(2)), Obj2("a", Str("bad"), "b", Str("bad")),
     Obj2("a", Num(1), "b", Str("bad")), Obj2("b", Str("bad"), "a", Str("bad")),
     Obj3("a", Num(1), "b", Num(2), "c", Num(3)), Obj3("c", Str("bad"), "a", Num(1), "b", Num(2)),
     Obj2("id", Num(1), "email", Str("x")), Obj2("id", Str("1"), "email", Str("x")),
     Obj1("id", Num(1)),
     Obj1("user", Obj1("name", Str("string"))), Obj1("user", Obj1("name", Num(1))),
     Obj1("user", Null),
     Obj2("id", Num(1), "metadata", Null), Obj2("id", Num(1), "metadata", Str("foo")),
     Obj2("id", Str("bad"), "metadata", Str("foo")),
     Obj2("id", Num(1), "pet", Bool(TRUE)), Obj2("id", Null, "pet", Str("rex")), Obj1("pet", Num(1)),
     Obj1("", Str("x")), Obj1("", Num(1)),
     Obj1("list", Arr(<<Obj1("a", Num(1)), Obj1("a", Str("bad"))>>)),
     Obj1("list", Arr(<<Obj1("a", Num(1))>>)),
     Obj2("type", Str("cat"), "meow", Bool(TRUE)), Obj2("type", Str("dog"), "bark", Bool(TRUE)),
     Obj2("type", Str("cat"), "bark", Bool(TRUE)) >>

(* -------------------------------- diff -------------------------------- *)

\* Every call of the getter optional allocates the list [type, 'null'] anew;
\* ref names the allocation, and two lists are the same object iff they are
\* equal with their ref.  A list without ref is the one allocation of its
\* content.
OptionalAt(s, r) == [type |-> [ref |-> r] @@ Optional(s).type] @@ s

\* s[f], undefined when the node has no such key.
Get(s, f) == IF Has(s, f) THEN s[f] ELSE Undefined

\* The own keys of a schema node in the order JSON.stringify meets them: the
\* order in which the builders set them.
NodeKeys ==
  << "type", "anyOf", "enum", "properties", "required", "additionalProperties",
     "items", "minItems", "maxItems", "minimum", "maximum", "multipleOf",
     "minLength", "maxLength", "pattern", "format", "minProperties", "maxProperties",
     "title", "description", "default" >>

\* The members of a serialized list or object, separated by commas.
RECURSIVE Commas(_)
Commas(parts) == IF Len(parts) = 0 THEN ""
                 ELSE IF Len(parts) = 1 THEN parts[1]
                 ELSE parts[1] \o "," \o Commas(Tail(parts))

\* JSON.stringify(x): the text, or "undefined" (no JSON text) for what it
\* returns undefined for.  Object keys come in their own order; a key whose
\* value is undefined or a function is left out, in a list such a member is
\* null.  The escaping of the characters of a string is left out: it is
\* one-to-one.
RECURSIVE Stringify(_)
Stringify(x) ==
  IF IsSchemaNode(x)
  THEN LET present == SelectSeq(NodeKeys, LAMBDA f : Has(x, f) /\ Stringify(x[f]) # "undefined")
       IN "{" \o Commas([n \in 1..Len(present) |->
                           "\"" \o present[n] \o "\":" \o Stringify(x[present[n]])]) \o "}"
  ELSE CASE x.k \in {"undefined", "function"} -> "undefined"
         [] x.k = "null" -> "null"
         [] x.k = "boolean" -> IF x.b THEN "true" ELSE "false"
         [] x.k = "number" -> StringOf(x.h \div 2) \o (IF x.h % 2 = 1 THEN ".5" ELSE "")
         [] x.k = "string" -> "\"" \o x.s \o "\""
         [] x.k = "array" ->
              "[" \o Commas([n \in 1..Len(x.elems) |->
                               IF Stringify(x.elems[n]) = "undefined" THEN "null"
                               ELSE Stringify(x.elems[n])]) \o "]"
         [] x.k = "object" ->
              LET present == SelectSeq(x.keys, LAMBDA f : Stringify(x.at[f]) # "undefined")
              IN "{" \o Commas([n \in 1..Len(present) |->
                                  "\"" \o present[n] \o "\":" \o Stringify(x.at[present[n]])]) \o "}"

\* `${x}` for a type: the string, the members of a list joined by commas, or
\* undefined.
TemplateOf(x) ==
  IF x.k = "string" THEN x.s
  ELSE IF x.k = "array"
  THEN Commas([n \in 1..Len(x.elems) |->
                 IF IsNullish(x.elems[n]) THEN "" ELSE x.elems[n].s])
  ELSE "undefined"

\* What diff returns: null, a change-set, or the exception that left it.
Thrown(name) == [k |-> "thrown", exc |-> name]
IsThrown(d) == IsValue(d) /\ d.k = "thrown"
ErrorOf(msg) == Obj1("error", Str(msg))
FromTo(x, y) == Obj2("from", x, "to", y)

\* The keys of the sequence ks for which the change-set f has an entry, as the
\* object that was filled key by key; null when nothing was entered (has), the
\* exception when an entry's diff threw.
ChangeSet(ks, f) ==
  LET entered == SelectSeq(ks, LAMBDA key : f[key] # Null)
      threw == SelectSeq(ks, LAMBDA key : IsThrown(f[key]))
  IN IF Len(threw) > 0 THEN f[threw[1]]
     ELSE IF Len(entered) = 0 THEN Null
     ELSE Obj(entered, [key \in Range(entered) |-> f[key]])

\* The attributes a leaf is compared by.
LeafKeys ==
  << "minimum", "maximum", "minLength", "pattern", "format", "enum",
     "title", "description", "default" >>

\* if (JSON.stringify(a[k]) !== JSON.stringify(b[k])) d[k] = { from: a[k], to: b[k] }
Attribute(a, b, f) ==
  IF Stringify(Get(a, f)) # Stringify(Get(b, f)) THEN FromTo(Get(a, f), Get(b, f)) ELSE Null

\* The report with the two type names in the other order.
TypeMismatchSwapped(a, b) ==
  ErrorOf("Type mismatch: " \o TemplateOf(Get(b, "type")) \o " vs " \o TemplateOf(Get(a, "type")))

\* { error: `Type mismatch: ${a.type} vs ${b.type}` }
TypeMismatch(a, b) ==
  ErrorOf("Type mismatch: " \o TemplateOf(Get(a, "type")) \o " vs " \o TemplateOf(Get(b, "type")))

\* a.type !== b.type, negated: strings by value, lists by identity.
SameType(a, b) == Get(a, "type") = Get(b, "type")

\* new Set([...Object.keys(a.properties || {}), ...Object.keys(b.properties || {})])
PropertyKeys(a, b) ==
  LET ka == IF Has(a, "properties") THEN a.properties.keys ELSE <<>>
      kb == IF Has(b, "properties") THEN b.properties.keys ELSE <<>>
  IN ka \o SelectSeq(kb, LAMBDA key : key \notin Range(ka))

\* a.properties?.[k]
Property(a, key) ==
  IF Has(a, "properties") /\ In(key, a.properties) THEN a.properties.at[key] ELSE Undefined

RECURSIVE Diff(_, _)

\* if (a.type === 'object') { ... }
DiffObject(a, b) ==
  LET keys == PropertyKeys(a, b)
      entry == [key \in Range(keys) |->
                  IF ~Truthy(Property(a, key)) THEN ErrorOf("Added in B")
                  ELSE IF ~Truthy(Property(b, key)) THEN ErrorOf("Removed in B")
                  ELSE Diff(Property(a, key), Property(b, key))]
      all == [key \in Range(keys) \cup {"minProperties", "maxProperties"} |->
                IF key \in {"minProperties", "maxProperties"} THEN Attribute(a, b, key)
                ELSE entry[key]]
  IN ChangeSet(keys \o <<"minProperties", "maxProperties">>, all)

\* if (a.type === 'array') { ... }
DiffArray(a, b) ==
  IF IsArray(Get(a, "items")) /\ IsArray(Get(b, "items"))
  THEN IF Len(a.items.elems) # Len(b.items.elems) THEN ErrorOf("Tuple length mismatch")
       ELSE LET n == Len(a.items.elems)
                d == ChangeSet([i \in 1..n |-> StringOf(i - 1)],
                               [key \in {StringOf(i - 1) : i \in 1..n} |->
                                  LET i == CHOOSE i \in 1..n : StringOf(i - 1) = key
                                  IN Diff(a.items.elems[i], b.items.elems[i])])
            IN IF IsThrown(d) \/ d = Null THEN d ELSE Obj1("items", d)
  ELSE IF ~IsArray(Get(a, "items")) /\ ~IsArray(Get(b, "items"))
  THEN LET d == Diff(Get(a, "items"), Get(b, "items"))
       IN IF IsThrown(d) \/ d = Null THEN d ELSE Obj1("items", d)
  ELSE ErrorOf("Array type mismatch (Tuple vs List)")

\* The comparison of the fixed attribute set.
DiffLeaf(a, b) == ChangeSet(LeafKeys, [f \in Range(LeafKeys) |-> Attribute(a, b, f)])

\* export function diff(a, b)
Diff(a, b) ==
  IF Stringify(a) = Stringify(b) THEN Null
  ELSE IF (IsValue(a) /\ IsNullish(a)) \/ (IsValue(b) /\ IsNullish(b)) THEN Thrown("TypeError")
  ELSE IF Truthy(Get(a, "anyOf")) \/ Truthy(Get(b, "anyOf"))
  THEN (IF Stringify(Get(a, "anyOf")) # Stringify(Get(b, "anyOf"))
        THEN Obj3("error", Str("Union mismatch"), "from", Get(a, "anyOf"), "to", Get(b, "anyOf"))
        ELSE Null)
  ELSE IF ~SameType(a, b)
  THEN TypeMismatch(a, b)
  ELSE IF Get(a, "type") = Str("object") THEN DiffObject(a, b)
  ELSE IF Get(a, "type") = Str("array") THEN DiffArray(a, b)
  ELSE DiffLeaf(a, b)

(* --------------------------- the state machine ------------------------ *)

\* No guarded function called.
NoM ==
  /\ mode = "none"
  /\ chain = <<>>
  /\ link = 0
  /\ mpc = "idle"
  /\ cur = Undefined
  /\ result = Undefined
  /\ invoked = <<>>
  /\ settled = <<>>
  /\ timer = "unset"
  /\ late = "none"
  /\ failure = Undefined
  /\ elapsed = FALSE
  /\ delivered = Undefined

\* No call of diff.
NoDiff ==
  /\ schemaA = Undefined
  /\ schemaB = Undefined
  /\ delta = Undefined

\* A pending call validate(val, schema, opts).
Call(v, s, o) ==
  /\ val = v
  /\ schema = s
  /\ opts = o
  /\ pc = "call"
  /\ ret = FALSE
  /\ thrown = ""
  /\ reports = <<>>
  /\ visited = <<>>
  /\ NoDiff
  /\ NoM

InitSmall ==
  \E n \in 1..Len(SmallSchemas), m \in 1..Len(SmallValues), o \in 1..Len(AllOpts) :
    Call(SmallValues[m], SmallSchemas[n], AllOpts[o])

InitList ==
  \E len \in Lens, o \in 1..Len(BigOpts) : \E bad \in Positions(len) :
    \/ Call(BigArr(len, bad), ListOfNumbers, BigOpts[o])
    \/ Call(Obj2("id", Num(7), "list", BigArr(len, bad)), ListInObject, BigOpts[o])
    \/ Call(BigArr(len, bad), ListInUnion, BigOpts[o])

InitDict ==
  \E len \in Lens, o \in 1..Len(BigOpts) : \E bad \in Positions(len) :
    \/ Call(BigDict(len, bad), Dictionary, BigOpts[o])
    \/ Call(WithId(BigDict(len, bad)), DictionaryWithId, BigOpts[o])

InitTuple ==
  \E n \in {x \in Lens : 1 <= x /\ x <= 2 * STRIDE + Slack}, o \in 1..Len(BigOpts) :
    \E len \in {n - 1, n, n + 1} : \E bad \in Positions(len) :
      Call(BigArr(len, bad), TupleOfNumbers(n), BigOpts[o])

Init == InitSmall \/ InitList \/ InitDict \/ InitTuple

\* validate(val, schema, opts) runs to its return, or to the exception that
\* leaves it.
DoValidate ==
  /\ pc = "call"
  /\ LET r == Validate(val, schema, opts)
     IN /\ ret' = r.ok
        /\ thrown' = r.exc
        /\ reports' = r.errs
        /\ visited' = r.visits
        /\ pc' = IF r.exc = "" THEN "returned" ELSE "threw"
  /\ UNCHANGED <<val, schema, opts, dvars, mvars>>

Next == DoValidate

Spec == Init /\ [][Next]_vars

(* ------------------------ the state machine of diff ------------------- *)

\* title(t), default(v)
Title(s, x) == [title |-> Str(x)] @@ s
Default(s, v) == [default |-> v] @@ s

\* The schemas diff is called on, two by two.
DiffSchemas ==
  << SAny, SString, SNumber, SInteger,
     Min(SNumber, 10), Min(SNumber, 20), Max(Min(SNumber, 10), 50),
     Min(SString, 5), Max(SString, 5), Max(SString, 10), Pattern(SString, PatternA),
     Emoji(SString),
     Title(SString, "name"), Default(Min(SNumber, 10), Num(10)),
     SEnum(<<Str("admin"), Str("user")>>), SEnum(<<Str("admin")>>),
     Optional(SString),
     OptionalAt(Min(SString, 1), 1), OptionalAt(Min(SString, 2), 1),
     OptionalAt(Min(SString, 2), 2),
     SObject(Obj1("score", Min(SNumber, 10))), SObject(Obj1("score", Min(SNumber, 20))),
     SObject(Obj1("a", SString)), SObject(Obj1("a", SNumber)),
     SObject(Obj2("a", SString, "b", SNumber)), SObject(Obj2("b", SNumber, "a", SString)),
     SObject(Obj2("a", SString, "c", SObject(Obj1("score", Min(SNumber, 10))))),
     SObject(Obj2("a", SNumber, "c", SObject(Obj1("score", SInteger)))),
     SObject(Obj1("tags", OptionalAt(SArray(SString), 1))),
     SObject(Obj1("tags", OptionalAt(SArray(SNumber), 2))),
     OptionalAt(SObject(Obj1("a", SString)), 1), OptionalAt(SObject(Obj1("a", SNumber)), 2),
     OptionalAt(SObject(Obj1("a", SNumber)), 1),
     SRecord(SString), SRecord(SNumber),
     Max(SRecord(SString), 5), Max(SRecord(SString), 10), Min(SRecord(SString), 1),
     Max(Min(SObject(Obj1("a", SString)), 1), 5),
     SArray(SNumber), SArray(SString), SArray(Min(SNumber, 10)), Min(SArray(SNumber), 1),
     SArray(SArray(SNumber)), SArray(SArray(SString)),
     OptionalAt(SArray(SString), 1), OptionalAt(SArray(SNumber), 2),
     [type |-> Str("array")], [type |-> Str("array"), minItems |-> Num(1)],
     STuple(<<SNumber, SNumber>>), STuple(<<SNumber, SNumber, SNumber>>),
     STuple(<<SNumber, SString>>), STuple(<<SString, SNumber>>),
     STuple(<<SString, STuple(<<SNumber, SNumber>>)>>),
     STuple(<<SString, STuple(<<SNumber, SString>>)>>),
     SUnion(<<SString, SNumber>>), SUnion(<<SNumber, SString>>),
     Title(SUnion(<<SString, SNumber>>), "id"),
     SUnion(<<SObject(Obj2("a", SString, "b", SNumber))>>),
     SUnion(<<SObject(Obj2("b", SNumber, "a", SString))>>) >>

\* A pending call diff(schemaA, schemaB).
DiffInit ==
  \E n \in 1..Len(DiffSchemas), m \in 1..Len(DiffSchemas) :
    /\ schemaA = DiffSchemas[n]
    /\ schemaB = DiffSchemas[m]
    /\ delta = Undefined
    /\ pc = "diff"
    /\ val = Undefined /\ schema = SAny /\ opts = Undefined
    /\ ret = FALSE /\ thrown = "" /\ reports = <<>> /\ visited = <<>>
    /\ NoM

\* diff(schemaA, schemaB) runs to its return, or to the exception that leaves it.
DoDiff ==
  /\ pc = "diff"
  /\ LET d == Diff(schemaA, schemaB)
     IN IF IsThrown(d)
        THEN /\ thrown' = d.exc
             /\ delta' = Undefined
             /\ pc' = "diffThrew"
        ELSE /\ thrown' = ""
             /\ delta' = d
             /\ pc' = "diffed"
  /\ UNCHANGED <<val, schema, opts, ret, reports, visited, schemaA, schemaB, mvars>>

DiffNext == DoDiff

SpecDiff == DiffInit /\ [][DiffNext]_vars

(* ------------------------------- claims ------------------------------- *)

Returned == pc = "returned"
FullScan == Truthy(FullScanOf(opts))
HasCallback == Truthy(OnErrorOf(opts))

\* The options of a call without callback that scans as the call of the state does.
SameScan == IF FullScan THEN FullScanOn ELSE Undefined

Min2(S) == CHOOSE n \in S : \A m \in S : n <= m
Last(xs) == xs[Len(xs)]
IsPrefix(p, q) == Len(p) <= Len(q) /\ SubSeq(q, 1, Len(p)) = p
IsListSchema(s) ==
  /\ ~Has(s, "anyOf") /\ Has(s, "type") /\ s.type = Str("array")
  /\ Has(s, "items") /\ ~IsArray(s.items) /\ ~Has(s, "enum")
IsObjectSchema(s) ==
  /\ ~Has(s, "anyOf") /\ Has(s, "type") /\ s.type = Str("object") /\ ~Has(s, "enum")
LengthOk(v, s) ==
  /\ Has(s, "minItems") => 2 * Len(v.elems) >= s.minItems.h
  /\ Has(s, "maxItems") => 2 * Len(v.elems) <= s.maxItems.h

\* The homogeneous lists of the call: the root, or the value of a declared
\* property of the root object, with the path walk reaches them by.
Lists ==
  (IF IsListSchema(schema) /\ IsArray(val) /\ LengthOk(val, schema)
   THEN {[v |-> val, s |-> schema, path |-> <<>>]} ELSE {})
  \cup
  (IF IsObjectSchema(schema) /\ val.k = "object" /\ Has(schema, "properties")
   THEN {[v |-> val.at[key], s |-> schema.properties.at[key], path |-> <<key>>] :
           key \in {x \in Range(schema.properties.keys) :
                      /\ In(x, val)
                      /\ IsListSchema(schema.properties.at[x])
                      /\ IsArray(val.at[x])
                      /\ LengthOk(val.at[x], schema.properties.at[x])}}
   ELSE {})

\* Element i (from 0) of list l violates the item schema.
Rejected(l, i) == ~Validate(l.v.elems[i + 1], l.s.items, SameScan).ok

\* The calls of walk on the elements of l, as the strings pushed for them.
ChildSegments(l) ==
  LET n == Len(l.path)
      kids == SelectSeq(visited, LAMBDA e : Len(e.path) = n + 1 /\ IsPrefix(l.path, e.path))
  IN [j \in 1..Len(kids) |-> kids[j].path[n + 1]]

\* The calls of walk on l itself.
NodeVisits(l) == SelectSeq(visited, LAMBDA e : e.path = l.path)

\* What has an element of a list or a value of a dictionary key, at any depth
\* of the schema, that violates its item or value schema: under a union, what
\* has one for every member.
RECURSIVE Injected(_, _)
Injected(v, s) ==
  IF Has(s, "anyOf")
  THEN Len(s.anyOf.elems) > 0 /\ \A n \in 1..Len(s.anyOf.elems) : Injected(v, s.anyOf.elems[n])
  ELSE IF IsNullish(v) THEN FALSE
  ELSE IF BaseType(s) = Str("array") /\ IsArray(v) /\ Has(s, "items")
  THEN IF IsArray(s.items)
       THEN \E i \in 1..Len(s.items.elems) :
              i <= Len(v.elems) /\ Injected(v.elems[i], s.items.elems[i])
       ELSE \E i \in 1..Len(v.elems) : ~Validate(v.elems[i], s.items, FullScanOn).ok
  ELSE IF BaseType(s) = Str("object") /\ v.k = "object"
  THEN \/ /\ Has(s, "properties")
          /\ \E key \in Range(s.properties.keys) :
               In(key, v) /\ Injected(v.at[key], s.properties.at[key])
       \/ /\ Has(s, "additionalProperties") /\ Truthy(s.additionalProperties)
          /\ \E key \in Range(v.keys) :
               /\ ~(Has(s, "properties") /\ In(key, s.properties))
               /\ ~Validate(v.at[key], s.additionalProperties, FullScanOn).ok
  ELSE FALSE

\* C1: with fullScan = true, a value in which an element of a list or a value
\* of a dictionary key, at any nesting depth of the schema, violates its item
\* or value schema is rejected.
C1_FullScanDetectsEveryViolation ==
  (Returned /\ FullScan /\ Injected(val, schema)) => ret = FALSE

\* C2: in a list longer than STRIDE validated without fullScan, a violation at
\* the first or at the last element makes validate return false.
C2_HeadAndTailAlwaysChecked ==
  Returned =>
    \A l \in Lists :
      (/\ Len(l.v.elems) > STRIDE
       /\ ~FullScan
       /\ (Rejected(l, 0) \/ Rejected(l, Len(l.v.elems) - 1)))
      => ret = FALSE

\* The last element, not a multiple of the step, is the only violation of a
\* sampled list, and the call returned false.
C2_Witness ==
  /\ Returned /\ ~FullScan /\ ret = FALSE
  /\ \E l \in Lists :
       LET len == Len(l.v.elems) IN
       /\ len >= 2 * STRIDE
       /\ (len - 1) % (len \div STRIDE) # 0
       /\ Rejected(l, len - 1)
       /\ \A i \in 0..(len - 2) : ~Rejected(l, i)

\* The indices the claim says are checked, ascending: all of them when
\* fullScan is set or len <= 97; otherwise the multiples of step = floor(len/97)
\* that are <= len - 1 - step, and len - 1.
ClaimedIndices(len, fs) ==
  IF fs \/ len <= 97 THEN [j \in 1..len |-> j - 1]
  ELSE LET step == len \div 97
           n == ((len - 1 - step) \div step) + 1
       IN [j \in 1..(n + 1) |-> IF j <= n THEN (j - 1) * step ELSE len - 1]

\* C3: walk is called on exactly the claimed indices of a list, in ascending
\* order and up to the first of them that violates the item schema; the list
\* is accepted iff none of the claimed indices violates it, so a violation at
\* any other index is never detected.
C3_CheckedIndicesAreExactlyTheSample ==
  Returned =>
    \A l \in Lists :
      Len(NodeVisits(l)) = 1 =>
        LET claimed == ClaimedIndices(Len(l.v.elems), FullScan)
            bad == {j \in 1..Len(claimed) : Rejected(l, claimed[j])}
            n == IF bad = {} THEN Len(claimed) ELSE Min2(bad)
        IN /\ ChildSegments(l) = [j \in 1..n |-> StringOf(claimed[j])]
           /\ NodeVisits(l)[1].ok = (bad = {})

\* A sampled list with step >= 2 whose only violation is at an index that is
\* not sampled was accepted.
C3_Witness ==
  /\ Returned /\ ~FullScan /\ ret = TRUE
  /\ \E l \in Lists :
       LET len == Len(l.v.elems) IN
       /\ len >= 2 * STRIDE
       /\ \E i \in 1..(len - 2) : Rejected(l, i)

\* The keys of the root object in traversal order: the declared properties the
\* value has, in schema order, then the other keys in for-in order when
\* additionalProperties is a schema.
RootOrder ==
  LET declared == IF Has(schema, "properties")
                  THEN SelectSeq(schema.properties.keys, LAMBDA key : In(key, val))
                  ELSE <<>>
      others == IF Has(schema, "additionalProperties") /\ Truthy(schema.additionalProperties)
                THEN SelectSeq(val.keys,
                               LAMBDA key : ~(Has(schema, "properties") /\ In(key, schema.properties)))
                ELSE <<>>
  IN declared \o others

\* The schema the value under a key of the root object is validated against.
RootChildSchema(key) ==
  IF Has(schema, "properties") /\ In(key, schema.properties)
  THEN schema.properties.at[key]
  ELSE schema.additionalProperties

Root == [v |-> val, s |-> schema, path |-> <<>>]

\* C4: a call that returns true made no report; a call that returns false with
\* a callback made exactly one, at the node walk was called on last; every call
\* of walk that failed is that node or one of its ancestors, so nothing was
\* visited after the violation and nothing before it had failed; under a root
\* object the keys were visited in traversal order, every declared property
\* before the failing key validates and the failing key's value does not.
C4_FailFastSingleReport ==
  Returned =>
    /\ ret => (reports = <<>> /\ \A j \in 1..Len(visited) : visited[j].ok)
    /\ ~HasCallback => reports = <<>>
    /\ ~ret =>
         /\ HasCallback =>
              (Len(reports) = 1 /\ reports[1].path = PathString(Last(visited).path))
         /\ ~Last(visited).ok
         /\ \A j \in 1..Len(visited) :
              ~visited[j].ok => IsPrefix(visited[j].path, Last(visited).path)
    /\ (IsObjectSchema(schema) /\ val.k = "object") =>
         LET order == RootOrder
             segs == ChildSegments(Root)
             pos == [j \in 1..Len(segs) |-> CHOOSE q \in 1..Len(order) : order[q] = segs[j]]
         IN /\ \A j \in 1..Len(segs) : segs[j] \in Range(order)
            /\ \A j \in 1..(Len(segs) - 1) : pos[j] < pos[j + 1]
            /\ (~ret /\ Len(Last(visited).path) > 0) =>
                 /\ Last(visited).path[1] = segs[Len(segs)]
                 /\ ~Validate(val.at[segs[Len(segs)]], RootChildSchema(segs[Len(segs)]), SameScan).ok
                 /\ \A q \in 1..(pos[Len(segs)] - 1) :
                      (Has(schema, "properties") /\ In(order[q], schema.properties))
                        => Validate(val.at[order[q]], RootChildSchema(order[q]), SameScan).ok

\* Two declared properties violate their schemas, the callback was called once
\* and the second property was never visited.
C4_Witness ==
  /\ Returned /\ ~ret /\ HasCallback /\ Len(reports) = 1
  /\ IsObjectSchema(schema) /\ val.k = "object" /\ Has(schema, "properties")
  /\ \E a, b \in Range(schema.properties.keys) :
       /\ a # b /\ In(a, val) /\ In(b, val)
       /\ ~Validate(val.at[a], schema.properties.at[a], SameScan).ok
       /\ ~Validate(val.at[b], schema.properties.at[b], SameScan).ok
       /\ Last(visited).path = <<a>>
       /\ \A j \in 1..Len(visited) : visited[j].path # <<b>>

Front(xs) == SubSeq(xs, 1, Len(xs) - 1)

\* C5: the path reported to onError is "root" when the violation is at the
\* root and otherwise the keys and indices from the root to the violating node
\* joined by dots; every call of walk below the root is made with the path of
\* its parent plus one segment.
C5_PathIsDotJoinedSegments ==
  Returned =>
    /\ (~ret /\ HasCallback /\ Len(reports) > 0) =>
         reports[1].path = IF Last(visited).path = <<>> THEN "root"
                           ELSE Join(Last(visited).path)
    /\ \A j \in 2..Len(visited) :
         /\ Len(visited[j].path) >= 1
         /\ IsPrefix(Front(visited[j].path), visited[j - 1].path)

\* The two-member unions of the call: the root, or a declared property of the
\* root object that walk was called on.
Unions ==
  (IF Has(schema, "anyOf") /\ Len(schema.anyOf.elems) = 2 THEN {Root} ELSE {})
  \cup
  (IF IsObjectSchema(schema) /\ val.k = "object" /\ Has(schema, "properties")
   THEN {[v |-> val.at[key], s |-> schema.properties.at[key], path |-> <<key>>] :
           key \in {x \in Range(schema.properties.keys) :
                      /\ In(x, val)
                      /\ Has(schema.properties.at[x], "anyOf")
                      /\ Len(schema.properties.at[x].anyOf.elems) = 2}}
   ELSE {})

MemberAccepts(u, n) == Validate(u.v, u.s.anyOf.elems[n], Undefined).ok

\* C6: a value is accepted by a union of A and B iff validate(v, A) or
\* validate(v, B) is true; when neither is, the report is "Union mismatch" at
\* the path of the union node.
C6_UnionIffSomeMember ==
  Returned =>
    \A u \in Unions :
      Len(NodeVisits(u)) = 1 =>
        /\ NodeVisits(u)[1].ok = (MemberAccepts(u, 1) \/ MemberAccepts(u, 2))
        /\ (u.path = <<>> /\ ~FullScan) =>
             ret = (Validate(val, schema.anyOf.elems[1], opts).ok
                      \/ Validate(val, schema.anyOf.elems[2], opts).ok)
        /\ (~NodeVisits(u)[1].ok /\ HasCallback) =>
             reports = <<[path |-> PathString(u.path), msg |-> "Union mismatch"]>>

\* A union whose first member rejects the value and whose second accepts it
\* accepted the value.
C6_Witness ==
  /\ Returned /\ ret
  /\ \E u \in Unions : ~MemberAccepts(u, 1) /\ MemberAccepts(u, 2)

\* The schemas without a type key of the call: the root, or a declared
\* property of the root object that walk was called on.
AnySchemas ==
  (IF DOMAIN schema = {} THEN {Root} ELSE {})
  \cup
  (IF IsObjectSchema(schema) /\ val.k = "object" /\ Has(schema, "properties")
   THEN {[v |-> val.at[key], s |-> schema.properties.at[key], path |-> <<key>>] :
           key \in {x \in Range(schema.properties.keys) :
                      In(x, val) /\ DOMAIN schema.properties.at[x] = {}}}
   ELSE {})

\* C7: the schema without keys accepts every value, null and undefined
\* included, at the root and as the schema of a property.
C7_AnyMatchesEverything ==
  Returned =>
    \A a \in AnySchemas : \A j \in 1..Len(visited) :
      visited[j].path = a.path => visited[j].ok

\* s without the key f, and s with maxProperties set to n.
Without(s, f) == [x \in DOMAIN s \ {f} |-> s[x]]
WithMaxProperties(s, n) == [maxProperties |-> Num(n)] @@ s

\* C8: an object with fewer keys than minProperties is rejected, one with at
\* least that many is validated as if the schema had no minProperties, with and
\* without fullScan; a schema gives every value the result that the schema
\* without maxProperties, or with any other maxProperties, gives it.
C8_MinEnforcedMaxGhost ==
  (Returned /\ IsObjectSchema(schema)) =>
    /\ (val.k = "object" /\ Has(schema, "minProperties")) =>
         IF 2 * Len(val.keys) < schema.minProperties.h
         THEN ret = FALSE
         ELSE ret = Validate(val, Without(schema, "minProperties"), opts).ok
    /\ ret = Validate(val, Without(schema, "maxProperties"), opts).ok
    /\ \A n \in 0..MaxProps : ret = Validate(val, WithMaxProperties(schema, n), opts).ok

\* An object with more keys than maxProperties was accepted.
C8_Witness ==
  /\ Returned /\ ret /\ IsObjectSchema(schema) /\ val.k = "object"
  /\ Has(schema, "maxProperties")
  /\ 2 * Len(val.keys) > schema.maxProperties.h

IsTupleSchema(s) ==
  /\ ~Has(s, "anyOf") /\ ~Has(s, "enum")
  /\ Has(s, "type") /\ s.type = Str("array")
  /\ Has(s, "items") /\ IsArray(s.items)
  /\ Has(s, "minItems") /\ s.minItems = Num(Len(s.items.elems))
  /\ Has(s, "maxItems") /\ s.maxItems = Num(Len(s.items.elems))

\* C9: a tuple schema accepts a value iff it is an array of exactly
\* items.length elements and every position validates against its own schema,
\* whatever the arity and with or without fullScan.
C9_TuplesNeverSampled ==
  (Returned /\ IsTupleSchema(schema)) =>
    ret = (/\ IsArray(val)
           /\ Len(val.elems) = Len(schema.items.elems)
           /\ \A i \in 1..Len(schema.items.elems) :
                Validate(val.elems[i], schema.items.elems[i], SameScan).ok)

\* A tuple of more than 2 x STRIDE positions whose only violation is at
\* position 1 was rejected without fullScan.
C9_Witness ==
  /\ Returned /\ ~ret /\ ~FullScan /\ IsTupleSchema(schema) /\ IsArray(val)
  /\ Len(schema.items.elems) >= 2 * STRIDE
  /\ Len(val.elems) = Len(schema.items.elems)
  /\ \A i \in 1..Len(val.elems) :
       Validate(val.elems[i], schema.items.elems[i], SameScan).ok = (i # Len(val.elems) - 1)

IsDictionarySchema(s) ==
  IsObjectSchema(s) /\ Has(s, "additionalProperties") /\ Truthy(s.additionalProperties)

\* C10: without fullScan, every value of a dictionary of 97 or fewer entries
\* is validated, so such a dictionary with a violating value is rejected.
C10_SmallDictionariesFullyChecked ==
  (/\ Returned /\ ~FullScan
   /\ IsDictionarySchema(schema) /\ val.k = "object"
   /\ Len(val.keys) <= 97
   /\ \E key \in Range(val.keys) :
        /\ ~(Has(schema, "properties") /\ In(key, schema.properties))
        /\ ~Validate(val.at[key], schema.additionalProperties, Undefined).ok)
  => ret = FALSE

\* The options o without a callback, and with one.
Callbackless(o) ==
  IF TypeOf(o) = "function" THEN Undefined
  ELSE IF o.k = "object" THEN Without(o, "onError")
  ELSE o
WithCallback(o) ==
  IF o.k = "object" THEN [onError |-> Fn] @@ Without(o, "onError")
  ELSE Fn

\* C11: validate returns with a callback what it returns without one, under
\* every fullScan setting; the callback is called only at a node that walk
\* was called on and that failed, never after validate accepted, so a
\* violation at a position the sampling skipped is not reported.
C11_CallbackDoesNotChangeResult ==
  Returned =>
    /\ ret = Validate(val, schema, Callbackless(opts)).ok
    /\ ret = Validate(val, schema, WithCallback(opts)).ok
    /\ FullScan = Truthy(FullScanOf(Callbackless(opts)))
    /\ FullScan = Truthy(FullScanOf(WithCallback(opts)))
    /\ ret => reports = <<>>
    /\ \A j \in 1..Len(reports) :
         \E n \in 1..Len(visited) :
           ~visited[n].ok /\ reports[j].path = PathString(visited[n].path)

\* A call with a callback and without fullScan accepted a list that has a
\* violating element, and the callback was not called.
C11_Witness ==
  /\ Returned /\ ret /\ HasCallback /\ ~FullScan /\ reports = <<>>
  /\ \E l \in Lists : \E i \in 0..(Len(l.v.elems) - 1) : Rejected(l, i)

\* C12: every call of validate ends by returning a boolean, except when the
\* callback throws: an exception leaves validate only if the callback was
\* called and threw, and then no boolean is returned.
C12_NeverThrowsOnItsOwn ==
  /\ pc = "threw" => (thrown = "CallbackError" /\ Throws(OnErrorOf(opts)) /\ Len(reports) = 1)
  /\ (pc = "returned" /\ ~ret /\ HasCallback) => ~Throws(OnErrorOf(opts))

Extras ==
  SelectSeq(val.keys, LAMBDA key : ~(Has(schema, "properties") /\ In(key, schema.properties)))
SampledKeys == [j \in 1..(Len(Extras) \div 97) |-> Extras[97 * j]]

\* Nothing fails before the additionalProperties loop of the root object.
DeclaredPass ==
  /\ ~TooFewProps(val, schema)
  /\ Has(schema, "required") =>
       \A n \in 1..Len(schema.required.elems) : In(schema.required.elems[n].s, val)
  /\ Has(schema, "properties") =>
       \A key \in Range(schema.properties.keys) :
         In(key, val) => Validate(val.at[key], schema.properties.at[key], SameScan).ok

FailsEnumType ==
  /\ Returned /\ HasCallback
  /\ ~Has(schema, "anyOf") /\ Has(schema, "enum") /\ Has(schema, "type")
  /\ schema.type \in {Str("string"), Str("number")}
  /\ ~IsNullish(val)
  /\ TypeOf(val) # schema.type.s

\* C24 as claimed: a non-null value that fails the type check of a schema
\* with an enum is reported as "Expected <type>", not as "Enum mismatch",
\* whether or not it is a member of the enum.
C24_TypeReportedBeforeEnum ==
  FailsEnumType =>
    (~ret /\ reports = <<[path |-> "root", msg |-> "Expected " \o schema.type.s]>>)

\* C24, amended: the enum is tested after the null screening and before the
\* type screening: a non-null value of another type than the declared one is
\* reported as "Enum mismatch" when it is not a member of the enum, and as
\* "Expected <type>" only when it is a member.
C24_EnumReportedBeforeType ==
  FailsEnumType =>
    /\ ~ret
    /\ reports = <<[path |-> "root",
                    msg |-> IF \E n \in 1..Len(schema.enum.elems) : schema.enum.elems[n] = val
                            THEN "Expected " \o schema.type.s
                            ELSE "Enum mismatch"]>>

\* A member of the enum that is not of the declared type was reported as a
\* type mismatch.
C24_Witness ==
  /\ FailsEnumType
  /\ \E n \in 1..Len(schema.enum.elems) : schema.enum.elems[n] = val
  /\ reports = <<[path |-> "root", msg |-> "Expected string"]>>

\* The root schema is an object schema whose additionalProperties is false
\* or absent, and the root value is an object that has the required keys, at
\* least minProperties keys, and under every declared key it has a value that
\* validates.
ClosedAndSatisfied ==
  /\ Returned
  /\ IsObjectSchema(schema) /\ val.k = "object"
  /\ ~(Has(schema, "additionalProperties") /\ Truthy(schema.additionalProperties))
  /\ DeclaredPass

C28_SampleSizeBounded ==
  (Returned /\ ~FullScan) =>
    \A l \in Lists :
      Len(NodeVisits(l)) = 1 =>
        LET segs == ChildSegments(l)
            len == Len(l.v.elems)
        IN /\ Len(segs) < 2 * STRIDE
           /\ Len(segs) <= len
           /\ (NodeVisits(l)[1].ok /\ len > 0) => Last(segs) = StringOf(len - 1)

\* Every element of a list of 2 x STRIDE - 1 elements was validated, and of a
\* longer list fewer.
C28_Witness ==
  /\ Returned /\ ~FullScan /\ ret
  /\ \E l \in Lists :
       /\ Len(l.v.elems) = 2 * STRIDE - 1
       /\ Len(ChildSegments(l)) = 2 * STRIDE - 1

\* The options of the call with fullScan set, and with fullScan left out.
Scanning(o) ==
  IF TypeOf(o) = "function" THEN [k |-> "object", onError |-> o, fullScan |-> Bool(TRUE)]
  ELSE IF o.k = "object" THEN [fullScan |-> Bool(TRUE)] @@ o
  ELSE FullScanOn
Sampling(o) == IF o.k = "object" THEN Without(o, "fullScan") ELSE o

\* C29: sampling never introduces a failure: a call with fullScan that
\* returned true returns true without fullScan, and a call without fullScan
\* that returned false returns false with fullScan.
C29_SamplingNeverInventsFailure ==
  Returned =>
    /\ (FullScan /\ ret) =>
         (Validate(val, schema, Sampling(opts)).ok /\ Validate(val, schema, Undefined).ok)
    /\ (~FullScan /\ ~ret) =>
         LET full == Validate(val, schema, Scanning(opts))
         IN ~full.ok /\ full.exc = ""

\* A list of at least 2 x STRIDE elements, none of which violates the item
\* schema, was accepted with fullScan.
C29_Witness ==
  /\ Returned /\ FullScan /\ ret
  /\ \E l \in Lists :
       /\ Len(l.v.elems) >= 2 * STRIDE
       /\ \A i \in 0..(Len(l.v.elems) - 1) : ~Rejected(l, i)

(* ------------------- guarded functions and chains (monad.ts) ---------- *)

\* timeoutMs: number = 5000
DefaultTimeoutMs == 5000

\* new SchemaError(kind, functionName), new TimeoutError(functionName, ms), an
\* exception of the implementation, and an exception that left validate.
SchemaError(kind, fnName) ==
  [name |-> "SchemaError", kind |-> kind, functionName |-> fnName,
   message |-> kind \o " validation failed for '" \o fnName \o "'"]
TimeoutError(fnName, ms) ==
  [name |-> "TimeoutError", functionName |-> fnName, ms |-> ms,
   message |-> "Function '" \o fnName \o "' timed out after " \o StringOf(ms) \o "ms"]
ImplError == [name |-> "Error", message |-> "Database disconnected"]
ErrorNamed(n) == [name |-> n, message |-> ""]

\* A chain that passes every error on as it is.
EnrichNothing(err, fnName) == err

\* private enrichError(err, fnName)
EnrichError(err, fnName) ==
  IF err.name = "SchemaError" /\ err.functionName = "Anonymous"
  THEN SchemaError(err.kind, fnName)
  ELSE IF err.name = "TimeoutError" /\ err.functionName = "Anonymous"
  THEN TimeoutError(fnName, err.ms)
  ELSE err

\* M.func(inputSchema, outputSchema, impl, timeoutMs): the two schemas, and of
\* the implementation what it may return, whether it may throw, whether it
\* may still be unsettled when timeoutMs has elapsed, and whether it is
\* synchronous (impl: (data) => Promise<O> | O): a synchronous implementation
\* keeps the thread from () => impl(data) until it returns, an asynchronous
\* one awaits and leaves the thread to the timers.
Func(input, output, returns, mayThrow, maySlow, sync, ms) ==
  [input |-> input, output |-> output, returns |-> returns,
   mayThrow |-> mayThrow, maySlow |-> maySlow, sync |-> sync, timeoutMs |-> ms]

NameS == SObject(Obj1("name", Min(SString, 2)))
GreetingS == SObject(Obj1("greeting", SString))
CountS == SObject(Obj1("count", Min(SNumber, 0)))

\* The registry of createM.
Registry ==
  [buildGreeting |->
     Func(NameS, GreetingS, {Obj1("greeting", Str("Hello, Alice"))}, FALSE, FALSE, TRUE,
          DefaultTimeoutMs),
   countChars |->
     Func(GreetingS, CountS, {Obj1("count", Num(12))}, FALSE, FALSE, TRUE, DefaultTimeoutMs),
   brokenFunction |->
     Func(NameS, GreetingS, {Obj1("greeting", Num(123))}, FALSE, FALSE, TRUE, DefaultTimeoutMs),
   thrower |-> Func(NameS, GreetingS, {}, TRUE, FALSE, TRUE, DefaultTimeoutMs),
   slowFn |-> Func(NameS, GreetingS, {Obj1("greeting", Str("Slow Bob"))}, FALSE, TRUE, FALSE, 10),
   busyFn |->
     Func(NameS, GreetingS, {Obj1("greeting", Str("Busy Bob"))}, FALSE, TRUE, TRUE, 10),
   total |-> Func(ListInUnion, NameS, {Obj1("name", Str("Alice"))}, FALSE, FALSE, TRUE,
                  DefaultTimeoutMs),
   spread |->
     Func(GreetingS, ListInUnion, {BigArr(2 * STRIDE, 1), BigArr(2 * STRIDE, -1)},
          FALSE, FALSE, TRUE, DefaultTimeoutMs)]

\* The values a guarded function or a chain is started with.
MInputs ==
  << Obj1("name", Str("Alice")), Obj1("name", Str("A")), Obj1("greeting", Str("Hello")),
     Num(3), BigArr(2 * STRIDE, 1), BigArr(2 * STRIDE, -1) >>

RECURSIVE Chains(_)
Chains(n) ==
  IF n = 0 THEN {<<>>}
  ELSE Chains(n - 1) \cup {Append(c, key) : c \in Chains(n - 1), key \in DOMAIN Registry}

\* The guarded function of the current link.
Here == Registry[chain[link]]

\* A guarded function called on its own (mode func: the wrapper of M.func), or
\* registry.key(data).key2()...result() (mode chain: start and createChain).
\* link is the position in the chain, cur the value the wrapper at link was
\* called with, mpc the place in that wrapper.
MInit ==
  \E md \in {"func", "chain"}, c \in Chains(MaxChain) \ {<<>>}, n \in 1..Len(MInputs) :
    /\ md = "func" => Len(c) = 1
    /\ mode = md
    /\ chain = c
    /\ link = 1
    /\ mpc = "in"
    /\ cur = MInputs[n]
    /\ result = Undefined
    /\ invoked = <<>>
    /\ settled = <<>>
    /\ timer = "unset"
    /\ elapsed = FALSE
    /\ late = "none"
    /\ failure = Undefined
    /\ delivered = Undefined
    /\ pc = "m"
    /\ val = Undefined /\ schema = SAny /\ opts = Undefined
    /\ ret = FALSE /\ thrown = "" /\ reports = <<>> /\ visited = <<>>
    /\ NoDiff

\* The wrapper throws err; in a chain the catch of start or createChain
\* enriches it and throws it again, and every later link is passed over.
Reject(err) ==
  /\ mpc' = "rejected"
  /\ failure' = IF mode = "chain" THEN EnrichError(err, chain[link]) ELSE err

\* 1. Input Validation; then the timer is set and the implementation is
\* queued: Promise.resolve().then(() => impl(data))
MValidateInput ==
  /\ mpc = "in"
  /\ LET r == Validate(cur, Here.input, FullScanOn)
     IN IF r.exc # "" THEN Reject(ErrorNamed(r.exc)) /\ timer' = timer
        ELSE IF ~r.ok THEN Reject(SchemaError("Input", "Anonymous")) /\ timer' = timer
        ELSE mpc' = "scheduled" /\ timer' = "armed" /\ failure' = failure
  /\ UNCHANGED <<mode, chain, link, cur, result, invoked, settled, elapsed, late, delivered>>
  /\ UNCHANGED <<vvars, pc, dvars>>

\* () => impl(data)
MInvoke ==
  /\ mpc = "scheduled"
  /\ mpc' = "running"
  /\ invoked' = Append(invoked, [key |-> chain[link], input |-> cur, link |-> link])
  /\ UNCHANGED <<mode, chain, link, cur, result, settled, timer, elapsed, late, failure,
                 delivered>>
  /\ UNCHANGED <<vvars, pc, dvars>>

\* The implementation settles with a value first: the race resolves, finally
\* clears the timer.
MImplReturns ==
  /\ mpc = "running"
  /\ elapsed => Here.sync
  /\ \E r \in Here.returns : result' = r
  /\ timer' = "cleared"
  /\ mpc' = "out"
  /\ UNCHANGED <<mode, chain, link, cur, invoked, settled, elapsed, late, failure, delivered>>
  /\ UNCHANGED <<vvars, pc, dvars>>

\* The implementation throws or rejects first.
MImplThrows ==
  /\ mpc = "running"
  /\ Here.mayThrow
  /\ elapsed => Here.sync
  /\ timer' = "cleared"
  /\ Reject(ImplError)
  /\ UNCHANGED <<mode, chain, link, cur, result, invoked, settled, elapsed, late, delivered>>
  /\ UNCHANGED <<vvars, pc, dvars>>

\* timeoutMs elapses after setTimeout while the implementation has not
\* settled.
MElapse ==
  /\ mpc = "running"
  /\ Here.maySlow
  /\ timer = "armed"
  /\ ~elapsed
  /\ elapsed' = TRUE
  /\ UNCHANGED <<mode, chain, link, mpc, cur, result, invoked, settled, timer, late, failure,
                 delivered>>
  /\ UNCHANGED <<vvars, pc, dvars>>

\* The callback of setTimeout runs: reject(new TimeoutError('Anonymous',
\* timeoutMs)), the race is lost and finally clears the timer.  The callback is
\* a task of the event loop: it runs once the timer is due and the thread is
\* free, which a synchronous implementation does not leave it before it has
\* returned.  The implementation is still running.
MTimeout ==
  /\ mpc = "running"
  /\ timer = "armed"
  /\ elapsed
  /\ ~Here.sync
  /\ timer' = "cleared"
  /\ late' = "running"
  /\ Reject(TimeoutError("Anonymous", Here.timeoutMs))
  /\ UNCHANGED <<mode, chain, link, cur, result, invoked, settled, elapsed, delivered>>
  /\ UNCHANGED <<vvars, pc, dvars>>

\* A wrapper that takes up a late result: validates it and goes on.
MLateResumes ==
  /\ late = "running"
  /\ \E how \in {"returned", "threw"} : late' = how
  /\ IF late' = "returned"
     THEN \E r \in Here.returns : result' = r /\ mpc' = "out"
     ELSE UNCHANGED <<result, mpc>>
  /\ UNCHANGED <<mode, chain, link, cur, invoked, settled, timer, elapsed, failure, delivered>>
  /\ UNCHANGED <<vvars, pc, dvars>>

\* The implementation settles after the race was lost.
MLate ==
  /\ late = "running"
  /\ \E how \in {"returned", "threw"} : late' = how
  /\ UNCHANGED <<mode, chain, link, mpc, cur, result, invoked, settled, timer, elapsed,
                 failure, delivered>>
  /\ UNCHANGED <<vvars, pc, dvars>>

\* 3. Output Validation; return result.  In a chain the next link's wrapper is
\* called with the result.
MValidateOutput ==
  /\ mpc = "out"
  /\ LET r == Validate(result, Here.output, FullScanOn)
     IN IF r.exc # "" \/ ~r.ok
        THEN /\ Reject(IF r.exc # "" THEN ErrorNamed(r.exc)
                       ELSE SchemaError("Output", "Anonymous"))
             /\ UNCHANGED <<link, cur, result, settled, timer, elapsed, delivered>>
        ELSE /\ settled' = Append(settled, result)
             /\ failure' = failure
             /\ IF link < Len(chain)
                THEN /\ link' = link + 1
                     /\ cur' = result
                     /\ result' = Undefined
                     /\ timer' = "unset"
                     /\ elapsed' = FALSE
                     /\ mpc' = "in"
                     /\ delivered' = delivered
                ELSE /\ mpc' = "resolved"
                     /\ delivered' = result
                     /\ UNCHANGED <<link, cur, result, timer, elapsed>>
  /\ UNCHANGED <<mode, chain, invoked, late>>
  /\ UNCHANGED <<vvars, pc, dvars>>

MNext ==
  \/ MValidateInput
  \/ MInvoke
  \/ MImplReturns
  \/ MImplThrows
  \/ MElapse
  \/ MTimeout
  \/ MLate
  \/ MValidateOutput

SpecM == MInit /\ [][MNext]_vars

(* --------------------------- claims about diff ------------------------ *)

Diffed == pc = "diffed"
DiffEnded == pc \in {"diffed", "diffThrew"}

\* Two trees with the same nodes: the keys of a node, the names of a property
\* map and the names of required are sets, every other list is ordered, and
\* which allocation a list is does not count.
RECURSIVE DeepEqual(_, _)
DeepEqual(x, y) ==
  IF IsSchemaNode(x) /\ IsSchemaNode(y)
  THEN /\ DOMAIN x = DOMAIN y
       /\ \A f \in DOMAIN x :
            IF f = "required" THEN Range(x[f].elems) = Range(y[f].elems)
            ELSE DeepEqual(x[f], y[f])
  ELSE IF IsSchemaNode(x) \/ IsSchemaNode(y) THEN FALSE
  ELSE IF x.k # y.k THEN FALSE
  ELSE IF x.k = "array"
  THEN /\ Len(x.elems) = Len(y.elems)
       /\ \A n \in 1..Len(x.elems) : DeepEqual(x.elems[n], y.elems[n])
  ELSE IF x.k = "object"
  THEN /\ Range(x.keys) = Range(y.keys)
       /\ \A key \in Range(x.keys) : DeepEqual(x.at[key], y.at[key])
  ELSE x = y

\* Two results with the same entries, in whatever order they were entered.
SameMap(x, y) ==
  IF x.k = "object" /\ y.k = "object"
  THEN Range(x.keys) = Range(y.keys) /\ x.at = y.at
  ELSE x = y

IsUnion(s) == Truthy(Get(s, "anyOf"))
TypeName(s) == TemplateOf(Get(s, "type"))
TypesDiffer(x, y) == ~DeepEqual(Get(x, "type"), Get(y, "type"))
IsScalarNode(s) ==
  ~IsUnion(s) /\ Has(s, "type") /\ BaseType(s) \notin {Str("object"), Str("array")}
IsObjectNode(s) == ~IsUnion(s) /\ Has(s, "type") /\ BaseType(s) = Str("object")
IsArrayNode(s) == ~IsUnion(s) /\ Has(s, "type") /\ BaseType(s) = Str("array")
Differ(x, y, f) ==
  IF DeepEqual(Get(x, f), Get(y, f)) THEN Null ELSE FromTo(Get(x, f), Get(y, f))

\* C13: diff(X, X) is null, and diff(a, b) is null whenever a and b are
\* structurally identical trees.
C13_DiffOfIdenticalIsNull ==
  (DiffEnded /\ DeepEqual(schemaA, schemaB)) => (Diffed /\ delta = Null)

\* The report of two different types, in the order of the arguments.
TypeReport(x, y) == ErrorOf("Type mismatch: " \o TypeName(x) \o " vs " \o TypeName(y))

\* The property names that two plain object nodes both declare with non-union
\* nodes of different types.
MismatchedProperties ==
  IF /\ ~IsUnion(schemaA) /\ ~IsUnion(schemaB)
     /\ Get(schemaA, "type") = Str("object") /\ Get(schemaB, "type") = Str("object")
  THEN {key \in Range(PropertyKeys(schemaA, schemaB)) :
          /\ Truthy(Property(schemaA, key)) /\ Truthy(Property(schemaB, key))
          /\ ~IsUnion(Property(schemaA, key)) /\ ~IsUnion(Property(schemaB, key))
          /\ TypesDiffer(Property(schemaA, key), Property(schemaB, key))}
  ELSE {}

\* C14: two non-union nodes that declare different types give exactly the
\* report "Type mismatch: <a.type> vs <b.type>", and in the other order the
\* report with the names swapped; under an object property the report is the
\* entry of that property's name.
C14_TypeMismatchTerminalAndSymmetric ==
  DiffEnded =>
    /\ (~IsUnion(schemaA) /\ ~IsUnion(schemaB) /\ TypesDiffer(schemaA, schemaB)) =>
         /\ Diffed
         /\ delta = TypeReport(schemaA, schemaB)
         /\ Diff(schemaB, schemaA) = TypeReport(schemaB, schemaA)
    /\ \A key \in MismatchedProperties :
         /\ Diffed /\ delta.k = "object" /\ In(key, delta)
         /\ delta.at[key] = TypeReport(Property(schemaA, key), Property(schemaB, key))

\* Two objects were compared that declare a property with different types and
\* differ in another property's constraints as well.
C14_Witness ==
  /\ Diffed /\ MismatchedProperties # {}
  /\ delta.k = "object" /\ Len(delta.keys) >= 2

\* The attributes of the fixed set in which two nodes differ.
ClaimedLeaf(x, y) == ChangeSet(LeafKeys, [f \in Range(LeafKeys) |-> Differ(x, y, f)])

\* C15: for two non-union nodes of the same scalar type diff returns the map
\* of exactly the attributes of the fixed set that differ, each as {from, to},
\* and null when none differs.
C15_LeafAttributesCompared ==
  (/\ DiffEnded
   /\ IsScalarNode(schemaA) /\ IsScalarNode(schemaB)
   /\ ~TypesDiffer(schemaA, schemaB))
  => (Diffed /\ SameMap(delta, ClaimedLeaf(schemaA, schemaB)))

\* One entry per property name of either side that differs, and the two
\* property counts.
ClaimedObject(x, y) ==
  LET keys == PropertyKeys(x, y) \o <<"minProperties", "maxProperties">>
  IN ChangeSet(keys,
       [key \in Range(keys) |->
          IF key \in {"minProperties", "maxProperties"} THEN Differ(x, y, key)
          ELSE IF Property(x, key) = Undefined THEN ErrorOf("Added in B")
          ELSE IF Property(y, key) = Undefined THEN ErrorOf("Removed in B")
          ELSE Diff(Property(x, key), Property(y, key))])

\* C16: for two object-typed nodes diff returns one entry per property name
\* of either side that differs (added, removed, or the diff of the two
\* property schemas), and the literal comparison of minProperties and
\* maxProperties; null iff there is no entry.
C16_ObjectPropertiesCompared ==
  (DiffEnded /\ IsObjectNode(schemaA) /\ IsObjectNode(schemaB) /\ ~TypesDiffer(schemaA, schemaB))
  => (Diffed /\ SameMap(delta, ClaimedObject(schemaA, schemaB)))

\* The five outcomes for two array nodes with items.
ClaimedArray(x, y) ==
  IF IsArray(x.items) /\ IsArray(y.items)
  THEN IF Len(x.items.elems) # Len(y.items.elems) THEN ErrorOf("Tuple length mismatch")
       ELSE LET differing == {i \in 1..Len(x.items.elems) :
                                Diff(x.items.elems[i], y.items.elems[i]) # Null}
            IN IF differing = {} THEN Null
               ELSE Obj1("items",
                      Obj(SelectSeq([n \in 1..Len(x.items.elems) |-> StringOf(n - 1)],
                                    LAMBDA key : \E i \in differing : key = StringOf(i - 1)),
                          [key \in {StringOf(i - 1) : i \in differing} |->
                             LET i == CHOOSE i \in differing : StringOf(i - 1) = key
                             IN Diff(x.items.elems[i], y.items.elems[i])]))
  ELSE IF ~IsArray(x.items) /\ ~IsArray(y.items)
  THEN (IF Diff(x.items, y.items) = Null THEN Null ELSE Obj1("items", Diff(x.items, y.items)))
  ELSE ErrorOf("Array type mismatch (Tuple vs List)")

\* C17: for two array-typed nodes diff returns the tuple length mismatch, the
\* map of the positions that differ under items, the diff of the two item
\* schemas under items, the tuple-versus-list mismatch, or null.
C17_ArrayItemsCompared ==
  (/\ DiffEnded
   /\ IsArrayNode(schemaA) /\ IsArrayNode(schemaB) /\ ~TypesDiffer(schemaA, schemaB)
   /\ Has(schemaA, "items") /\ Has(schemaB, "items"))
  => (Diffed /\ delta = ClaimedArray(schemaA, schemaB))

\* C18: diff never throws: every call ends with null or a change-set, also on
\* nodes that leave optional keys out.
C18_DiffNeverThrows == pc # "diffThrew"

\* C26: diff of two non-union nodes is the report "Type mismatch" iff their
\* declared types differ; two nodes built apart whose types are equal, also
\* the same pair [T, "null"], are compared by what they hold.
C26_TypeMismatchIffTypesDiffer ==
  (Diffed /\ ~IsUnion(schemaA) /\ ~IsUnion(schemaB)) =>
    ((delta = TypeReport(schemaA, schemaB)) <=> TypesDiffer(schemaA, schemaB))

\* C27: when diff(a, b) is null, a and b accept exactly the same values:
\* validate with fullScan gives every value the same result for both.
C27_NullDiffMeansSameValues ==
  (Diffed /\ delta = Null) =>
    \A n \in 1..Len(SmallValues) :
      LET x == Validate(SmallValues[n], schemaA, FullScanOn)
          y == Validate(SmallValues[n], schemaB, FullScanOn)
      IN x.ok = y.ok /\ x.exc = y.exc

(* ---------------------- claims about guarded functions ---------------- *)

\* v passes s validated exhaustively: validate with fullScan accepts it, and
\* no element of a list and no value of a dictionary in it, at any depth,
\* violates its schema.
Exhaustive(v, s) == Validate(v, s, FullScanOn).ok /\ ~Injected(v, s)

RejectedWith(kind) ==
  mpc = "rejected" /\ failure.name = "SchemaError" /\ failure.kind = kind

\* C19: a guarded function is fenced on both sides with exhaustive
\* validation: the implementation is invoked only with an input that passed
\* the input schema, otherwise the call rejects with SchemaError Input and the
\* implementation is not invoked; the call resolves only with a result that
\* passed the output schema, otherwise it rejects with SchemaError Output and
\* the result is not delivered.
C19_GuardedFunctionFenced ==
  pc = "m" =>
    /\ \A n \in 1..Len(invoked) : Exhaustive(invoked[n].input, Registry[invoked[n].key].input)
    /\ (mpc # "in" /\ ~Exhaustive(cur, Here.input)) =>
         (RejectedWith("Input") /\ Len(invoked) = link - 1)
    /\ RejectedWith("Input") => Len(invoked) = link - 1
    /\ \A n \in 1..Len(settled) : Exhaustive(settled[n], Registry[chain[n]].output)
    /\ mpc = "resolved" => Exhaustive(delivered, Registry[chain[Len(chain)]].output)
    /\ RejectedWith("Output") => (delivered = Undefined /\ Len(settled) = link - 1)

\* The message of a SchemaError or TimeoutError that names the function.
NamedMessage(err, fnName) ==
  IF err.name = "SchemaError" THEN err.kind \o " validation failed for '" \o fnName \o "'"
  ELSE "Function '" \o fnName \o "' timed out after " \o StringOf(err.ms) \o "ms"

\* What holds in every state of a chain.
ChainOrder ==
  (pc = "m" /\ mode = "chain") =>
    /\ Len(invoked) <= link
    /\ Len(settled) \in {link - 1, link}
    /\ \A n \in 1..Len(invoked) : invoked[n].key = chain[n] /\ invoked[n].link = n
    /\ \A n \in 2..Len(invoked) :
         /\ Len(settled) >= n - 1
         /\ invoked[n].input = settled[n - 1]
         /\ Validate(settled[n - 1], Registry[chain[n - 1]].output, FullScanOn).ok
         /\ Validate(invoked[n].input, Registry[chain[n]].input, FullScanOn).ok
    /\ mpc = "rejected" =>
         /\ Len(settled) = link - 1
         /\ delivered = Undefined
         /\ failure.name \in {"SchemaError", "TimeoutError"} =>
              /\ failure.functionName = chain[link]
              /\ failure.message = NamedMessage(failure, chain[link])
    /\ mpc = "resolved" =>
         /\ link = Len(chain) /\ Len(invoked) = Len(chain)
         /\ delivered = settled[Len(chain)]

TimedOut ==
  /\ mpc = "rejected"
  /\ failure.name = "TimeoutError"
  /\ failure.ms = Here.timeoutMs
  /\ failure.functionName = (IF mode = "chain" THEN chain[link] ELSE "Anonymous")
  /\ failure.message = NamedMessage(failure, failure.functionName)

\* C21: if the implementation has not settled when timeoutMs elapses, the
\* guarded call rejects with the TimeoutError carrying timeoutMs (and in a
\* chain the registry key); if the implementation settles first the timer is
\* cleared and there is no TimeoutError; the timer is cleared on every way out
\* of the race.
C21_TimeoutEnforced ==
  pc = "m" =>
    /\ (elapsed /\ mpc # "running") => TimedOut
    /\ (mpc = "rejected" /\ failure.name = "TimeoutError") => (elapsed /\ TimedOut)
    /\ ~elapsed => late = "none"
    /\ timer = "armed" => mpc \in {"scheduled", "running"}
    /\ mpc \in {"out", "resolved"} => timer = "cleared"
    /\ (mpc = "rejected" /\ Len(invoked) = link) => timer = "cleared"

\* C30: once the timeout has rejected the call, the implementation goes on
\* (it is not cancelled) and its later completion, with a value or with an
\* exception, changes nothing: the call stays rejected with the TimeoutError,
\* the late result is never validated nor delivered, and no later link of a
\* chain is invoked.
C30_LateCompletionIgnored ==
  /\ [](late # "none" =>
          /\ TimedOut
          /\ result = Undefined /\ delivered = Undefined
          /\ Len(settled) = link - 1 /\ Len(invoked) = link
          /\ late = "running" => ENABLED MLate)
  /\ [][late # "none" =>
          /\ late' # "none"
          /\ <<mpc, failure, result, settled, delivered, invoked, link, cur>>' =
               <<mpc, failure, result, settled, delivered, invoked, link, cur>>]_vars

\* The implementation of the first link of a two-link chain returned after
\* the timeout had rejected the chain.
C30_Witness ==
  /\ pc = "m" /\ mode = "chain" /\ Len(chain) = 2 /\ link = 1
  /\ late = "returned" /\ mpc = "rejected"

====
